---- MODULE Spec2Model ----
(***************************************************************************)
(* Model of src/main.py: the duration parser _parse_hours and the          *)
(* routines built on it (summarize_hours, get_task_status_summary,          *)
(* get_epic_summary, get_sprint_summary, get_daily_workload,                *)
(* prepare_tasks_data, categorize_efficiency).                              *)
(*                                                                          *)
(* Floats are modelled as exact rationals [k |-> "num", n, d] (n/d in       *)
(* lowest terms, d > 0), plus the non-finite values the code can produce:   *)
(* NaN, +/-inf.  A raised exception is the value Raised.                    *)
(* Strings are sequences of one-character strings.                          *)
(***************************************************************************)
EXTENDS Integers, Sequences, FiniteSets, TLC

VARIABLES raw, df, op, out

vars == <<raw, df, op, out>>

(***************************************************************************)
(* Bounds of the model.                                                     *)
(***************************************************************************)
\* longest raw duration string enumerated exhaustively over Alphabet
MaxLen == 4
\* length of the long digit runs among the raw duration strings
LongRun == 400
\* most rows of an enumerated table
MaxTasks == 2
\* last calendar day (day of the month) a raw sprint date may name
MaxDay == 3

(***************************************************************************)
(* Small helpers.                                                           *)
(***************************************************************************)
Min(S) == CHOOSE x \in S : \A y \in S : x <= y

Max(S) == CHOOSE x \in S : \A y \in S : x >= y

AbsInt(x) == IF x < 0 THEN -x ELSE x

RECURSIVE Gcd(_, _)
Gcd(a, b) == IF b = 0 THEN a ELSE Gcd(b, a % b)

RECURSIVE Pow10(_)
Pow10(k) == IF k = 0 THEN 1 ELSE 10 * Pow10(k - 1)

(***************************************************************************)
(* Float values.                                                            *)
(***************************************************************************)
Rat(n, d) ==
    LET g == Gcd(AbsInt(n), AbsInt(d))
        s == IF d < 0 THEN -1 ELSE 1
    IN  [k |-> "num", n |-> (s * n) \div g, d |-> (s * d) \div g]

Zero == Rat(0, 1)

NaNf == [k |-> "nan", n |-> 0, d |-> 0]

Inf(sign) == [k |-> "inf", n |-> sign, d |-> 0]

\* an exception propagating out of the function
Raised == [k |-> "raise", n |-> 0, d |-> 0]

IsNum(x) == x.k = "num"

IsFloat(x) == x.k \in {"num", "nan", "inf"}

\* float arithmetic on finite values and NaN (NaN propagates)
Add(x, y) ==
    IF IsNum(x) /\ IsNum(y) THEN Rat(x.n * y.d + y.n * x.d, x.d * y.d) ELSE NaNf

Sub(x, y) ==
    IF IsNum(x) /\ IsNum(y) THEN Rat(x.n * y.d - y.n * x.d, x.d * y.d) ELSE NaNf

Mul(x, y) ==
    IF IsNum(x) /\ IsNum(y) THEN Rat(x.n * y.n, x.d * y.d) ELSE NaNf

\* Series / Series: x/0 is inf or NaN, never an exception
Div(x, y) ==
    IF IsNum(x) /\ IsNum(y)
    THEN IF y.n # 0 THEN Rat(x.n * y.d, x.d * y.n)
         ELSE IF x.n = 0 THEN NaNf ELSE Inf(IF x.n > 0 THEN 1 ELSE -1)
    ELSE NaNf

Abs(x) == IF IsNum(x) THEN Rat(AbsInt(x.n), x.d) ELSE x

\* x < y on finite values; every comparison with NaN is false
Lt(x, y) == IsNum(x) /\ IsNum(y) /\ x.n * y.d < y.n * x.d

Le(x, y) == IsNum(x) /\ IsNum(y) /\ x.n * y.d <= y.n * x.d

\* Series.replace(0, nan)
Replace0(x) == IF IsNum(x) /\ x.n = 0 THEN NaNf ELSE x

\* Series.fillna(0)
FillNa0(x) == IF x.k = "nan" THEN Zero ELSE x

\* Series.clip(lo, hi); NaN stays NaN
Clip(x, lo, hi) == IF Lt(x, lo) THEN lo ELSE IF Lt(hi, x) THEN hi ELSE x

(***************************************************************************)
(* Raw cells of a table column: a missing value (NaN/None), a string, or a  *)
(* number (a column pandas read as numeric).                                *)
(***************************************************************************)
NA == [t |-> "na", s |-> <<>>, v |-> 0]

Str(s) == [t |-> "str", s |-> s, v |-> 0]

Int64(v) == [t |-> "int", s |-> <<>>, v |-> v]

DigitSeq == <<"0", "1", "2", "3", "4", "5", "6", "7", "8", "9">>

DigitChars == {DigitSeq[i] : i \in 1..10}

IsDigit(c) == c \in DigitChars

DigitVal(c) == (CHOOSE i \in 1..10 : DigitSeq[i] = c) - 1

\* s[i..j] are all digits (true of an empty range)
AllDigits(s, i, j) == \A p \in i..j : IsDigit(s[p])

RECURSIVE NatToStr(_)
NatToStr(n) ==
    IF n < 10 THEN <<DigitSeq[n + 1]>>
    ELSE NatToStr(n \div 10) \o <<DigitSeq[(n % 10) + 1]>>

\* str(raw)
PyStr(cell) ==
    IF cell.t = "str" THEN cell.s
    ELSE IF cell.v < 0 THEN <<"-">> \o NatToStr(-cell.v) ELSE NatToStr(cell.v)

\* str.strip()
Strip(s) ==
    LET ns == {i \in 1..Len(s) : s[i] # " "}
    IN  IF ns = {} THEN <<>> ELSE SubSeq(s, Min(ns), Max(ns))

\* str.replace(",", ".")
CommaToDot(s) == [i \in 1..Len(s) |-> IF s[i] = "," THEN "." ELSE s[i]]

(***************************************************************************)
(* int() and float() of a digit string.  A digit run of HugeDigits or more  *)
(* significant digits is beyond the range of a float: converting it to a    *)
(* float raises OverflowError, float() of it is inf.  Shorter runs are      *)
(* taken exactly (the input sets hold runs of at most 9, or of LongRun,     *)
(* digits).                                                                 *)
(***************************************************************************)
HugeDigits == 312

SigLen(ds) ==
    LET nz == {i \in 1..Len(ds) : ds[i] # "0"}
    IN  IF nz = {} THEN 0 ELSE Len(ds) - Min(nz) + 1

IsHuge(ds) == SigLen(ds) >= HugeDigits

RECURSIVE DecVal(_)
DecVal(ds) ==
    IF ds = <<>> THEN 0
    ELSE DecVal(SubSeq(ds, 1, Len(ds) - 1)) * 10 + DigitVal(ds[Len(ds)])

(***************************************************************************)
(* float(s) on a stripped string: an optional sign, then digits with at     *)
(* most one "." and at least one digit ("4", "4.", ".5", "4.05").  The      *)
(* exponent, inf/nan and underscore forms need characters outside Alphabet. *)
(* ok = FALSE is ValueError.                                                *)
(***************************************************************************)
FloatSyntax(b) ==
    LET dots == {i \in 1..Len(b) : b[i] = "."}
    IN  /\ Cardinality(dots) <= 1
        /\ \A i \in 1..Len(b) : IsDigit(b[i]) \/ b[i] = "."
        /\ \E i \in 1..Len(b) : IsDigit(b[i])

\* the value of an unsigned decimal literal b that satisfies FloatSyntax
DecimalValue(b, sign) ==
    LET dots == {i \in 1..Len(b) : b[i] = "."}
        dot  == IF dots = {} THEN Len(b) + 1 ELSE Min(dots)
        ip   == SubSeq(b, 1, dot - 1)
        fp   == SubSeq(b, dot + 1, Len(b))
    IN  IF IsHuge(ip) THEN Inf(sign)
        ELSE Rat(sign * (DecVal(ip) * Pow10(Len(fp)) + DecVal(fp)), Pow10(Len(fp)))

PyFloat(s) ==
    LET signed == Len(s) >= 1 /\ s[1] \in {"-", "+"}
        b      == IF signed THEN SubSeq(s, 2, Len(s)) ELSE s
        sign   == IF signed /\ s[1] = "-" THEN -1 ELSE 1
    IN  IF FloatSyntax(b) THEN [ok |-> TRUE, val |-> DecimalValue(b, sign)]
        ELSE [ok |-> FALSE, val |-> Zero]

\* re.match(r"^\d+:\d+$", s): digits, one colon, digits
MatchHHMM(s) ==
    \E p \in 2..(Len(s) - 1) :
        s[p] = ":" /\ AllDigits(s, 1, p - 1) /\ AllDigits(s, p + 1, Len(s))

\* h + m / 60 for h, m = map(int, s.split(":")): int / int and int + float
\* raise OverflowError when the int is beyond the float range
HoursMinutes(s) ==
    LET p == CHOOSE q \in 1..Len(s) : s[q] = ":"
        hs == SubSeq(s, 1, p - 1)
        ms == SubSeq(s, p + 1, Len(s))
    IN  IF IsHuge(hs) \/ IsHuge(ms) THEN Raised
        ELSE Rat(DecVal(hs) * 60 + DecVal(ms), 60)

\* re.search(r"(\d+[\.,]?\d*)", s).group(1), or <<>> when nothing matches:
\* the leftmost maximal digit run, one separator if it follows, and the
\* digits after it
FirstNumber(s) ==
    LET ds == {i \in 1..Len(s) : IsDigit(s[i])}
    IN  IF ds = {} THEN <<>>
        ELSE LET i == Min(ds)
                 j == Max({q \in i..Len(s) : AllDigits(s, i, q)})
                 sep == j < Len(s) /\ s[j + 1] \in {".", ","}
                 e == IF sep
                      THEN Max({q \in (j + 1)..Len(s) : AllDigits(s, j + 2, q)})
                      ELSE j
             IN  SubSeq(s, i, e)

\* the except ValueError branch of _parse_hours
ExtractNumber(s) ==
    LET g == FirstNumber(s)
    IN  IF g = <<>> THEN Zero ELSE PyFloat(CommaToDot(g)).val

\* which return statement of _parse_hours a raw cell reaches
ParseBranch(cell) ==
    IF cell.t = "na" THEN "isna"
    ELSE LET s == Strip(PyStr(cell))
         IN  IF s = <<>> THEN "empty"
             ELSE IF MatchHHMM(s) THEN "hhmm"
             ELSE IF PyFloat(CommaToDot(s)).ok THEN "float"
             ELSE "search"

_parse_hours(cell) ==
    LET s == Strip(PyStr(cell))
        b == ParseBranch(cell)
    IN  CASE b = "isna"   -> Zero
          [] b = "empty"  -> Zero
          [] b = "hhmm"   -> HoursMinutes(s)
          [] b = "float"  -> PyFloat(CommaToDot(s)).val
          [] b = "search" -> ExtractNumber(CommaToDot(s))

(***************************************************************************)
(* Raw duration inputs: every string over Alphabet of at most MaxLen        *)
(* characters, the strings the documentation names, a missing value,        *)
(* numeric cells, and strings holding a digit run of LongRun digits.        *)
(***************************************************************************)
Alphabet == {"0", "4", "5", ":", ",", ".", "-", " ", "x"}

Tokens == UNION {[1..n -> Alphabet] : n \in 0..MaxLen}

T_0830 == <<"0", "8", ":", "3", "0">>

T_4 == <<"4">>

T_400 == <<"4", ":", "0", "0">>

T_475 == <<"4", ",", "7", "5">>

T_500 == <<"5", ",", "0", "0">>

T_abc == <<"a", "b", "c">>

T_4horas == <<"4", " ", "h", "o", "r", "a", "s", " ", "e", "x", "t", "r", "a", "s">>

T_4xx == <<"4", ":", "x", "x">>

T_neg5 == <<"-", "5">>

NamedTokens == {T_0830, T_4, T_400, T_475, T_500, T_abc, T_4horas, T_4xx, T_neg5}

LongDigits == [i \in 1..LongRun |-> "9"]

LongTokens ==
    {<<"0", ":">> \o LongDigits, LongDigits \o <<":", "0">>, LongDigits,
     LongDigits \o <<"x">>}

NumCells == {Int64(v) : v \in {-5, 0, 4, 12}}

RawInputs ==
    {NA} \cup NumCells \cup {Str(s) : s \in Tokens \cup NamedTokens \cup LongTokens}

EmptyTable == [cols |-> {}, rows |-> <<>>]

(***************************************************************************)
(* The parser on its own: one call of _parse_hours on a raw cell.           *)
(***************************************************************************)
InitParse ==
    /\ raw \in RawInputs
    /\ df = EmptyTable
    /\ op = "init"
    /\ out = Zero

ParseHours ==
    /\ op = "init"
    /\ op' = "_parse_hours"
    /\ out' = _parse_hours(raw)
    /\ UNCHANGED <<raw, df>>

NextParse == ParseHours

SpecParse == InitParse /\ [][NextParse]_vars

(***************************************************************************)
(* Tables (pandas DataFrames).  A table is its set of column names and its  *)
(* sequence of rows; a row is a record with one field per column the model  *)
(* uses (a field whose column is not in cols holds a placeholder).          *)
(*   story_sprint, story_epic      columns "story.sprint", "story.epic"     *)
(*   sprint_start, sprint_end      columns "story.sprint.start_date",       *)
(*                                 "story.sprint.end_date"                  *)
(* Missing is the NaN pandas puts in an empty text cell.                    *)
(***************************************************************************)
Missing == "NaN"

IsNa(x) == x = Missing

\* the literal the code compares the lower-cased state with ("concluído")
DoneLiteral == "concluido"

StateValues == {"Concluido", "CONCLUIDO", "Em andamento"}

\* str.lower() on the state values of the model
Lower(s) ==
    CASE s = "Concluido" -> "concluido"
      [] s = "CONCLUIDO" -> "concluido"
      [] s = "Em andamento" -> "em andamento"
      [] OTHER -> s

\* the comparison without str.lower()
IsDone_CaseSensitive(state) == ~IsNa(state) /\ state = DoneLiteral

\* df["state"].str.lower() == "concluído": NaN compares unequal
IsDone(state) == ~IsNa(state) /\ Lower(state) = DoneLiteral

\* the ascending order of the group keys of the model (str comparison)
KeyOrder == <<"A", "B", "E1", "E2", "S1", "S2">>

InputCols ==
    {"number", "assigned_to", "state", "u_horas_planejadas", "u_horas_reais",
     "story.sprint", "story.epic", "story.sprint.start_date",
     "story.sprint.end_date"}

\* a timestamp is a number of hours; NaT is the missing timestamp
NaT == -1

HoursPerDay == 24

DaysInMonth == 31

\* a float column that does not exist yet
NoFloat == [k |-> "absent", n |-> 0, d |-> 0]

\* a raw sprint date "dd/01/2024 hh:00:00"; d = 0 stands for a text that is
\* no date, MissingDate for an empty cell
RawDate(d, h) == [d |-> d, h |-> h]

MissingDate == RawDate(-1, 0)

\* pd.to_datetime(..., format="%d/%m/%Y %H:%M:%S", errors="coerce")
ToDatetime(c) ==
    IF c.d < 1 \/ c.d > DaysInMonth \/ c.h < 0 \/ c.h >= HoursPerDay THEN NaT
    ELSE c.d * HoursPerDay + c.h

Row(num, who, st, pl, re, sprint, epic, sd, ed) ==
    [number |-> num, assigned_to |-> who, state |-> st,
     u_horas_planejadas |-> pl, u_horas_reais |-> re,
     story_sprint |-> sprint, story_epic |-> epic,
     sprint_start |-> sd, sprint_end |-> ed,
     planned_hours |-> NoFloat, real_hours |-> NoFloat,
     start_date |-> NaT, end_date |-> NaT]

\* Series.sum(): NaN values are skipped
RECURSIVE SumSeq(_)
SumSeq(s) ==
    IF s = <<>> THEN Zero
    ELSE LET rest == SumSeq(Tail(s))
         IN  IF Head(s).k = "nan" THEN rest ELSE Add(Head(s), rest)

\* groupby(key): the keys in ascending order; rows whose key is NaN belong
\* to no group (dropna=True is the default)
GroupKeys(rows, key) ==
    LET present == {rows[i][key] : i \in 1..Len(rows)} \ {Missing}
    IN  SelectSeq(KeyOrder, LAMBDA k : k \in present)

Column(rows, f) == [i \in 1..Len(rows) |-> rows[i][f]]

\* df["planned_hours"] = ...apply(_parse_hours); df["real_hours"] = ...
WithHours(rows) ==
    [i \in 1..Len(rows) |->
        [rows[i] EXCEPT !.planned_hours = _parse_hours(rows[i].u_horas_planejadas),
                        !.real_hours = _parse_hours(rows[i].u_horas_reais)]]

\* an exception raised inside apply(_parse_hours), seen in the parsed rows
ParseRaises(parsed) ==
    \E i \in 1..Len(parsed) :
        parsed[i].planned_hours = Raised \/ parsed[i].real_hours = Raised

Hundred == Rat(100, 1)

\* the accuracy without .fillna(0)
EstimationAccuracy_NoFillna(difference, planned) ==
    Clip(Sub(Hundred, Abs(Mul(Div(difference, Replace0(planned)), Hundred))),
         Zero, Hundred)

\* lines 71-82: (100 - abs(difference / planned.replace(0, nan) * 100))
\*              .fillna(0).clip(0, 100)
EstimationAccuracy(difference, planned) ==
    Clip(FillNa0(Sub(Hundred, Abs(Mul(Div(difference, Replace0(planned)), Hundred)))),
         Zero, Hundred)

\* results of an operation
NoResult == [kind |-> "init", rows |-> <<>>]

Table(rows) == [kind |-> "table", rows |-> rows]

None == [kind |-> "none", rows |-> <<>>]

Error == [kind |-> "error", rows |-> <<>>]

(***************************************************************************)
(* summarize_hours(csv_file): reads the CSV (the input columns of df) into  *)
(* a table of its own, so df itself is not touched.                         *)
(***************************************************************************)
UserRow(done, who) ==
    LET grp     == SelectSeq(done, LAMBDA r : r.assigned_to = who)
        planned == SumSeq(Column(grp, "planned_hours"))
        real    == SumSeq(Column(grp, "real_hours"))
        diff    == Sub(real, planned)
    IN  [assigned_to |-> who,
         total_planned_hours |-> planned,
         total_real_hours |-> real,
         difference |-> diff,
         estimation_accuracy |-> EstimationAccuracy(diff, planned)]

summarize_hours(t) ==
    LET parsed == WithHours(t.rows)
        done   == SelectSeq(parsed, LAMBDA r : IsDone(r.state))
        keys   == GroupKeys(done, "assigned_to")
    IN  IF ~({"u_horas_planejadas", "u_horas_reais", "state", "assigned_to"}
                \subseteq t.cols)
           \/ ParseRaises(parsed)
        THEN Error
        ELSE Table([i \in 1..Len(keys) |-> UserRow(done, keys[i])])

(***************************************************************************)
(* get_sprint_summary(df): adds planned_hours and real_hours to df itself.  *)
(***************************************************************************)
\* the share of the rows whose state is the literal as written
PctCompleted_CaseSensitive(grp) ==
    Rat(100 * Len(SelectSeq(grp, LAMBDA r : IsDone_CaseSensitive(r.state))), Len(grp))

\* (x.str.lower() == "concluído").mean() * 100
PctCompleted(grp) ==
    Rat(100 * Len(SelectSeq(grp, LAMBDA r : IsDone(r.state))), Len(grp))

SprintRow(rows, key) ==
    LET grp     == SelectSeq(rows, LAMBDA r : r.story_sprint = key)
        planned == SumSeq(Column(grp, "planned_hours"))
        real    == SumSeq(Column(grp, "real_hours"))
    IN  [story_sprint |-> key,
         num_tasks |-> Len(SelectSeq(grp, LAMBDA r : ~IsNa(r.number))),
         total_planned_hours |-> planned,
         total_real_hours |-> real,
         pct_completed |-> PctCompleted(grp),
         difference |-> Sub(real, planned)]

\* the table after lines 124-125: each assignment adds its column unless
\* the lookup of the raw column or the parsing of a cell raised before it
SprintSummaryDf(t) ==
    LET parsed == WithHours(t.rows)
        okP == "u_horas_planejadas" \in t.cols
               /\ \A i \in 1..Len(parsed) : parsed[i].planned_hours # Raised
        okR == okP /\ "u_horas_reais" \in t.cols
               /\ \A i \in 1..Len(parsed) : parsed[i].real_hours # Raised
    IN  [cols |-> t.cols \cup (IF okP THEN {"planned_hours"} ELSE {})
                         \cup (IF okR THEN {"real_hours"} ELSE {}),
         rows |-> [i \in 1..Len(parsed) |->
                     [t.rows[i] EXCEPT
                        !.planned_hours = IF okP THEN parsed[i].planned_hours ELSE @,
                        !.real_hours = IF okR THEN parsed[i].real_hours ELSE @]]]

get_sprint_summary(t) ==
    LET parsed == WithHours(t.rows)
        keys   == GroupKeys(parsed, "story_sprint")
    IN  IF ~({"u_horas_planejadas", "u_horas_reais", "story.sprint", "number", "state"}
                \subseteq t.cols)
           \/ ParseRaises(parsed)
        THEN Error
        ELSE Table([i \in 1..Len(keys) |-> SprintRow(parsed, keys[i])])

(***************************************************************************)
(* get_daily_workload(df): adds start_date and end_date to df itself.       *)
(***************************************************************************)
DateCols == {"story.sprint.start_date", "story.sprint.end_date"}

\* pd.date_range(start, end, freq="D"): start, start + 1 day, ... while <= end
DateRange(start, end) ==
    [i \in 1..(IF end < start THEN 0 ELSE (end - start) \div HoursPerDay + 1) |->
        start + (i - 1) * HoursPerDay]

\* (row["end_date"] - row["start_date"]).days + 1
TaskDays(r) == (r.end_date - r.start_date) \div HoursPerDay + 1

\* lines 158-163
WithDates(rows) ==
    [i \in 1..Len(rows) |->
        [rows[i] EXCEPT !.start_date = ToDatetime(rows[i].sprint_start),
                        !.end_date = ToDatetime(rows[i].sprint_end)]]

\* the table after the call
DailyWorkloadDf(t) ==
    IF DateCols \subseteq t.cols
    THEN [cols |-> t.cols \cup {"start_date", "end_date"}, rows |-> WithDates(t.rows)]
    ELSE t

\* the rows kept when only a missing end date drops a task
DfWithDates_EndOnly(rows) ==
    SelectSeq(WithDates(rows), LAMBDA r : r.end_date # NaT)

\* df.dropna(subset=["start_date", "end_date"])
DfWithDates(rows) ==
    SelectSeq(WithDates(rows), LAMBDA r : r.start_date # NaT /\ r.end_date # NaT)

\* lines 175-178: the index of daily_load
DailyIndex(wd) ==
    DateRange(Min({wd[i].start_date : i \in 1..Len(wd)}),
              Max({wd[i].end_date : i \in 1..Len(wd)}))

\* the task's dates that are labels of the index (line 196)
TaskHits(r, date) ==
    \E j \in 1..Len(DateRange(r.start_date, r.end_date)) :
        DateRange(r.start_date, r.end_date)[j] = date

\* what the loop of lines 186-202 adds to one cell of daily_load
DailyCell(wd, date, col) ==
    LET hit == SelectSeq(wd, LAMBDA r : TaskDays(r) > 0 /\ TaskHits(r, date))
    IN  SumSeq([i \in 1..Len(hit) |->
                   Div(_parse_hours(hit[i][col]), Rat(TaskDays(hit[i]), 1))])

\* an exception inside the loop: a missing duration column (KeyError) or a
\* cell _parse_hours raises on, met at a task with task_days > 0
LoopRaises(t, wd) ==
    \E i \in 1..Len(wd) :
        /\ TaskDays(wd[i]) > 0
        /\ \/ ~({"u_horas_planejadas", "u_horas_reais"} \subseteq t.cols)
           \/ _parse_hours(wd[i].u_horas_planejadas) = Raised
           \/ _parse_hours(wd[i].u_horas_reais) = Raised

get_daily_workload(t) ==
    IF ~(DateCols \subseteq t.cols) THEN None
    ELSE LET all == WithDates(t.rows)
             wd  == DfWithDates(t.rows)
         IN  IF (\A i \in 1..Len(all) : all[i].start_date = NaT)
                \/ (\A i \in 1..Len(all) : all[i].end_date = NaT)
             THEN None
             ELSE IF Len(wd) = 0 THEN None
             ELSE IF LoopRaises(t, wd) THEN None
             ELSE LET idx == DailyIndex(wd)
                  IN  Table([i \in 1..Len(idx) |->
                         [date |-> idx[i],
                          planned_hours |-> DailyCell(wd, idx[i], "u_horas_planejadas"),
                          real_hours |-> DailyCell(wd, idx[i], "u_horas_reais")]])

(***************************************************************************)
(* The aggregations on a table: any of them may be called, in any order,    *)
(* on the table the caller holds.                                           *)
(***************************************************************************)
T_0 == <<"0">>

T_1 == <<"1">>

T_2 == <<"2">>

T_3 == <<"3">>

T_9 == <<"9">>

\* (assigned_to, story.sprint) of the enumerated rows
AggKeys == {<<"A", "S1">>, <<"B", "S2">>, <<Missing, Missing>>}

\* (u_horas_planejadas, u_horas_reais) of the enumerated rows
AggHours ==
    {<<Str(T_400), Str(T_500)>>, <<Str(T_2), Str(T_1)>>, <<NA, Str(T_500)>>,
     <<Str(T_neg5), Str(T_1)>>}

\* state of the enumerated rows
AggStates == {"CONCLUIDO", "Em andamento"}

AggRows ==
    {Row("T1", k[1], st, h[1], h[2], k[2], "E1", MissingDate, MissingDate) :
        k \in AggKeys, st \in AggStates, h \in AggHours}

\* the three tasks of the documented end-to-end scenario
Scenario ==
    <<Row("T1", "A", "Concluido", Str(T_400), Str(T_500), "S1", "E1", MissingDate, MissingDate),
      Row("T2", "A", "Concluido", Str(T_2), Str(T_1), "S1", "E1", MissingDate, MissingDate),
      Row("T3", "B", "Em andamento", Str(T_3), Str(T_0), "S1", "E1", MissingDate, MissingDate)>>

AggTables == UNION {[1..n -> AggRows] : n \in 0..MaxTasks} \cup {Scenario}

InitAgg ==
    /\ raw = NA
    /\ df \in {[cols |-> InputCols, rows |-> rs] : rs \in AggTables}
    /\ op = "init"
    /\ out = NoResult

SummarizeHours ==
    /\ op' = "summarize_hours"
    /\ out' = summarize_hours(df)
    /\ UNCHANGED <<raw, df>>

GetSprintSummary ==
    /\ op' = "get_sprint_summary"
    /\ out' = get_sprint_summary(df)
    /\ df' = SprintSummaryDf(df)
    /\ UNCHANGED raw

NextAgg == SummarizeHours \/ GetSprintSummary

SpecAgg == InitAgg /\ [][NextAgg]_vars

(***************************************************************************)
(* The daily workload on a table whose rows carry sprint dates.             *)
(***************************************************************************)
TimesOfDay == {0, 12}

RawDates ==
    {MissingDate, RawDate(0, 0)} \cup {RawDate(d, h) : d \in 1..MaxDay, h \in TimesOfDay}

DailyHours == {<<Str(T_9), Str(T_3)>>, <<Str(T_400), NA>>}

DailyRows ==
    {Row("T1", "A", "Concluido", h[1], h[2], "S1", "E1", sd, ed) :
        h \in DailyHours, sd \in RawDates, ed \in RawDates}

DailyTables == UNION {[1..n -> DailyRows] : n \in 0..MaxTasks}

DailyColSets ==
    {InputCols, InputCols \ {"story.sprint.end_date"}, InputCols \ {"u_horas_reais"}}

\* a table holds nothing in the columns it does not have
Project(rows, cols) ==
    [i \in 1..Len(rows) |->
        [rows[i] EXCEPT
            !.state = IF "state" \in cols THEN @ ELSE Missing,
            !.u_horas_planejadas = IF "u_horas_planejadas" \in cols THEN @ ELSE NA,
            !.u_horas_reais = IF "u_horas_reais" \in cols THEN @ ELSE NA,
            !.sprint_start = IF "story.sprint.start_date" \in cols THEN @ ELSE MissingDate,
            !.sprint_end = IF "story.sprint.end_date" \in cols THEN @ ELSE MissingDate]]

InitDaily ==
    /\ raw = NA
    /\ df \in {[cols |-> c, rows |-> Project(rs, c)] : c \in DailyColSets, rs \in DailyTables}
    /\ op = "init"
    /\ out = NoResult

GetDailyWorkload ==
    /\ op' = "get_daily_workload"
    /\ out' = get_daily_workload(df)
    /\ df' = DailyWorkloadDf(df)
    /\ UNCHANGED raw

NextDaily == GetDailyWorkload

SpecDaily == InitDaily /\ [][NextDaily]_vars

(***************************************************************************)
(* get_task_status_summary(df): df["state"].value_counts().reset_index().   *)
(***************************************************************************)
\* the distinct values of a column in the order of their first appearance
RECURSIVE Unique(_)
Unique(s) ==
    IF s = <<>> THEN <<>>
    ELSE <<Head(s)>> \o SelectSeq(Unique(Tail(s)), LAMBDA x : x # Head(s))

\* sort_values(f, ascending=False): rows with equal f keep their order
RECURSIVE SortDesc(_, _)
SortDesc(rows, f) ==
    IF rows = <<>> THEN <<>>
    ELSE LET m == Max({rows[i][f] : i \in 1..Len(rows)})
         IN  SelectSeq(rows, LAMBDA r : r[f] = m)
                \o SortDesc(SelectSeq(rows, LAMBDA r : r[f] # m), f)

get_task_status_summary(t) ==
    LET states == SelectSeq(Column(t.rows, "state"), LAMBDA s : ~IsNa(s))
        seen   == Unique(states)
    IN  IF "state" \notin t.cols THEN Error
        ELSE Table(SortDesc(
                 [i \in 1..Len(seen) |->
                     [Status |-> seen[i],
                      Quantidade |-> Len(SelectSeq(states, LAMBDA s : s = seen[i]))]],
                 "Quantidade"))

(***************************************************************************)
(* get_epic_summary(df): adds planned_hours and real_hours to df itself.    *)
(***************************************************************************)
\* the row of an epic whose num_tasks counts its completed tasks only
EpicRow_CountDone(rows, key) ==
    LET grp     == SelectSeq(rows, LAMBDA r : r.story_epic = key)
        planned == SumSeq(Column(grp, "planned_hours"))
        real    == SumSeq(Column(grp, "real_hours"))
    IN  [story_epic |-> key,
         num_tasks |-> Len(SelectSeq(grp, LAMBDA r : IsDone(r.state))),
         total_planned_hours |-> planned,
         total_real_hours |-> real,
         pct_completed |-> PctCompleted(grp),
         difference |-> Sub(real, planned)]

EpicRow(rows, key) ==
    LET grp     == SelectSeq(rows, LAMBDA r : r.story_epic = key)
        planned == SumSeq(Column(grp, "planned_hours"))
        real    == SumSeq(Column(grp, "real_hours"))
    IN  [story_epic |-> key,
         num_tasks |-> Len(SelectSeq(grp, LAMBDA r : ~IsNa(r.number))),
         total_planned_hours |-> planned,
         total_real_hours |-> real,
         pct_completed |-> PctCompleted(grp),
         difference |-> Sub(real, planned)]

\* the table after lines 96-97 (the same two assignments as lines 124-125)
EpicSummaryDf(t) == SprintSummaryDf(t)

\* df[df["story.epic"].notna() & (df["story.epic"] != "")]
DfWithEpic(rows) ==
    SelectSeq(rows, LAMBDA r : ~IsNa(r.story_epic) /\ r.story_epic # "")

\* the rows before .sort_values("num_tasks", ascending=False): one per epic,
\* in ascending order of the key
EpicGroups(parsed) ==
    LET with_epic == DfWithEpic(parsed)
        keys      == GroupKeys(with_epic, "story_epic")
    IN  [i \in 1..Len(keys) |-> EpicRow(with_epic, keys[i])]

\* the epic rows left in group order
EpicOrder_Unsorted(groups) == groups

\* .sort_values("num_tasks", ascending=False)
EpicOrder(groups) == SortDesc(groups, "num_tasks")

get_epic_summary(t) ==
    LET parsed == WithHours(t.rows)
    IN  IF ~({"u_horas_planejadas", "u_horas_reais", "story.epic", "number", "state"}
                \subseteq t.cols)
           \/ ParseRaises(parsed)
        THEN Error
        ELSE Table(EpicOrder(EpicGroups(parsed)))

(***************************************************************************)
(* prepare_tasks_data(df): works on df.copy(); the caller's table is left   *)
(* as it is.                                                                *)
(***************************************************************************)
Two == Rat(2, 1)

\* the ratio without .clip(0, 2)
Efficiency_NoClip(planned, real) ==
    FillNa0(Div(planned, Replace0(real)))

\* the ratio without .fillna(0)
Efficiency_NoFillna(planned, real) ==
    Clip(Div(planned, Replace0(real)), Zero, Two)

\* lines 224-227: (planned / real.replace(0, nan)).fillna(0).clip(0, 2)
Efficiency(planned, real) ==
    Clip(FillNa0(Div(planned, Replace0(real))), Zero, Two)

\* (sprint_end_date - sprint_start_date).dt.days: NaN when a date is NaT
DurationDays(start, end) ==
    IF start = NaT \/ end = NaT THEN [na |-> TRUE, days |-> 0]
    ELSE [na |-> FALSE, days |-> (end - start) \div HoursPerDay]

\* one row of the prepared copy
TaskRow(r, dated) ==
    LET planned == _parse_hours(r.u_horas_planejadas)
        real    == _parse_hours(r.u_horas_reais)
        start   == IF dated THEN ToDatetime(r.sprint_start) ELSE NaT
        end     == IF dated THEN ToDatetime(r.sprint_end) ELSE NaT
    IN  [number |-> r.number, assigned_to |-> r.assigned_to, state |-> r.state,
         u_horas_planejadas |-> r.u_horas_planejadas,
         u_horas_reais |-> r.u_horas_reais,
         story_sprint |-> r.story_sprint, story_epic |-> r.story_epic,
         sprint_start |-> r.sprint_start, sprint_end |-> r.sprint_end,
         start_date |-> r.start_date, end_date |-> r.end_date,
         planned_hours |-> planned,
         real_hours |-> real,
         difference |-> Sub(real, planned),
         efficiency |-> Efficiency(planned, real),
         has_estimate |-> Lt(Zero, planned),
         sprint_start_date |-> start,
         sprint_end_date |-> end,
         sprint_duration_days |-> DurationDays(start, end)]

\* the columns of the prepared copy: those of df at the time of the call and
\* the ones added to the copy
PreparedCols(t) ==
    t.cols \cup {"planned_hours", "real_hours", "difference", "efficiency",
                 "has_estimate"}
           \cup (IF DateCols \subseteq t.cols
                 THEN {"sprint_start_date", "sprint_end_date", "sprint_duration_days"}
                 ELSE {})

\* a result that carries its columns
Frame(cols, rows) == [kind |-> "table", cols |-> cols, rows |-> rows]

prepare_tasks_data(t) ==
    LET parsed == WithHours(t.rows)
    IN  IF ~({"u_horas_planejadas", "u_horas_reais"} \subseteq t.cols)
           \/ ParseRaises(parsed)
        THEN Error
        ELSE Frame(PreparedCols(t),
                   [i \in 1..Len(t.rows) |-> TaskRow(t.rows[i], DateCols \subseteq t.cols)])

\* the caller's table after a call that also assigns the derived columns to it
PrepareTasksDf_InPlace(t) == EpicSummaryDf(t)

\* the caller's table after the call: df = df.copy() rebinds the local name
PrepareTasksDf(t) == t

(***************************************************************************)
(* categorize_efficiency(eff), applied to the efficiency column.            *)
(***************************************************************************)
Half == Rat(1, 2)

FourFifths == Rat(4, 5)

FiveFourths == Rat(5, 4)

\* every comparison of the chain taken as inclusive (<=)
categorize_efficiency_Inclusive(eff) ==
    IF eff = Zero THEN "Sem estimativa"
    ELSE IF Le(eff, Half) THEN "Muito abaixo (>200%)"
    ELSE IF Le(eff, FourFifths) THEN "Abaixo (125-200%)"
    ELSE IF Le(eff, FiveFourths) THEN "Adequada (80-125%)"
    ELSE IF Le(eff, Two) THEN "Acima (50-80%)"
    ELSE "Muito acima (<50%)"

categorize_efficiency(eff) ==
    IF eff = Zero THEN "Sem estimativa"
    ELSE IF Lt(eff, Half) THEN "Muito abaixo (>200%)"
    ELSE IF Lt(eff, FourFifths) THEN "Abaixo (125-200%)"
    ELSE IF Lt(eff, FiveFourths) THEN "Adequada (80-125%)"
    ELSE IF Lt(eff, Two) THEN "Acima (50-80%)"
    ELSE "Muito acima (<50%)"

\* lines 814-818: the category of every row of a prepared table
WithCategory(rows) ==
    [i \in 1..Len(rows) |->
        [number |-> rows[i].number,
         planned_hours |-> rows[i].planned_hours,
         real_hours |-> rows[i].real_hours,
         efficiency |-> rows[i].efficiency,
         efficiency_category |-> categorize_efficiency(rows[i].efficiency)]]

(***************************************************************************)
(* The projections on the table the caller holds (df_original in main):     *)
(* each may be called at any time, in any order, any number of times.       *)
(***************************************************************************)
T_5 == <<"5">>

\* the rows the enumerated tables are drawn from: tasks with and without
\* usable sprint dates, with and without sprint and epic keys
ProjRows ==
    {Row("T1", "A", "Concluido", Str(T_9), Str(T_3), "S1", "E1",
         RawDate(1, 0), RawDate(MaxDay, 0)),
     Row("T2", "B", "Em andamento", Str(T_400), Str(T_500), "S2", "E2",
         MissingDate, MissingDate),
     Row("T3", "A", "CONCLUIDO", Str(T_2), Str(T_1), "S2", "E2",
         RawDate(0, 0), RawDate(2, 0)),
     Row("T4", "B", "Concluido", NA, Str(T_500), Missing, Missing,
         RawDate(1, 12), RawDate(2, 12)),
     Row("T5", "A", "Em andamento", Str(T_1), Str(T_0), "S1", "",
         RawDate(2, 0), MissingDate),
     Row("T6", "B", "CONCLUIDO", Str(T_0), Str(T_2), "S1", "E2",
         RawDate(2, 0), RawDate(2, 0))}

\* four tasks: two of epic E2 and sprint S2 entered before one of E1 and S1
\* and one without epic
ProjScenario ==
    <<Row("T1", "B", "Concluido", Str(T_400), Str(T_500), "S2", "E2",
          RawDate(2, 0), RawDate(2, 0)),
      Row("T2", "B", "Em andamento", Str(T_2), Str(T_1), "S2", "E2",
          MissingDate, MissingDate),
      Row("T3", "A", "Concluido", Str(T_3), Str(T_0), "S1", "E1",
          RawDate(1, 0), RawDate(1, 0)),
      Row("T4", "A", "Em andamento", Str(T_1), Str(T_0), "S1", "",
          RawDate(2, 0), MissingDate)>>

ProjTables == UNION {[1..n -> ProjRows] : n \in 0..MaxTasks} \cup {ProjScenario}

ProjColSets ==
    {InputCols, InputCols \ {"u_horas_planejadas"}, InputCols \ {"u_horas_reais"},
     InputCols \ {"state"}, InputCols \ {"story.sprint.end_date"}}

InitProj ==
    /\ raw = NA
    /\ df \in {[cols |-> c, rows |-> Project(rs, c)] : c \in ProjColSets, rs \in ProjTables}
    /\ op = "init"
    /\ out = NoResult

GetTaskStatusSummary ==
    /\ op' = "get_task_status_summary"
    /\ out' = get_task_status_summary(df)
    /\ UNCHANGED <<raw, df>>

GetEpicSummary ==
    /\ op' = "get_epic_summary"
    /\ out' = get_epic_summary(df)
    /\ df' = EpicSummaryDf(df)
    /\ UNCHANGED raw

PrepareTasksData ==
    /\ op' = "prepare_tasks_data"
    /\ out' = prepare_tasks_data(df)
    /\ df' = PrepareTasksDf(df)
    /\ UNCHANGED raw

NextProj ==
    \/ SummarizeHours
    \/ GetTaskStatusSummary
    \/ GetEpicSummary
    \/ GetSprintSummary
    \/ GetDailyWorkload
    \/ PrepareTasksData

SpecProj == InitProj /\ [][NextProj]_vars

(***************************************************************************)
(* The efficiency of one task and its category.  The durations are values   *)
(* a float holds exactly, so the quotient compares with the thresholds as   *)
(* the exact ratio does.                                                    *)
(***************************************************************************)
EffCells ==
    {NA, Str(T_0), Str(T_1), Str(T_2), Str(T_4), Str(T_5), Str(T_475),
     Str(T_neg5), Str(T_0830)}

EffTables ==
    {<<Row("T1", "A", "Concluido", pl, re, "S1", "E1", MissingDate, MissingDate)>> :
        pl \in EffCells, re \in EffCells}

InitEff ==
    /\ raw = NA
    /\ df \in {[cols |-> InputCols, rows |-> rs] : rs \in EffTables}
    /\ op = "init"
    /\ out = NoResult

CategorizeEfficiency ==
    /\ op = "prepare_tasks_data"
    /\ out.kind = "table"
    /\ op' = "categorize_efficiency"
    /\ out' = Table(WithCategory(out.rows))
    /\ UNCHANGED <<raw, df>>

NextEff == PrepareTasksData \/ CategorizeEfficiency

SpecEff == InitEff /\ [][NextEff]_vars

(***************************************************************************)
(* Properties of _parse_hours, under SpecParse.                             *)
(***************************************************************************)
\* the text _parse_hours works on: str(raw).strip()
RawText == IF raw.t = "na" THEN <<>> ELSE Strip(PyStr(raw))

HasDigit(s) == \E i \in 1..Len(s) : IsDigit(s[i])

Parsed == op = "_parse_hours"

(***************************************************************************)
(* C1: _parse_hours never fails: for every raw input it returns a float,    *)
(* and every input that is no duration (not digits:digits, not a number,    *)
(* holding no numeric substring) yields exactly 0.0.                        *)
(***************************************************************************)
C1_NeverFails ==
    Parsed =>
        /\ IsFloat(out)
        /\ ~HasDigit(RawText) => out = Zero

(***************************************************************************)
(* C2: every duration value _parse_hours produces for the planned and       *)
(* actual columns is non-negative, also for tokens with a leading minus     *)
(* sign or other non-digit characters.                                      *)
(***************************************************************************)
C2_NonNegative == (Parsed /\ IsNum(out)) => out.n >= 0

(***************************************************************************)
(* C3: _parse_hours applies its rules in a fixed precedence: (1) null or    *)
(* empty -> 0.0; (2) exactly digits:digits -> hours + minutes/60, also for  *)
(* minutes >= 60; (3) otherwise the comma-to-period-normalized text parsed  *)
(* as a number; (4) otherwise the first numeric substring, else 0.0; with   *)
(* the documented values for "08:30", "4", "4,75", "", None, "abc",         *)
(* "4 horas extras", and "4:xx" not taken as HH:MM.                         *)
(***************************************************************************)
\* the position of the colon of a digits:digits text, 0 when it is none
ColonOf(s) ==
    LET ps == {p \in 2..(Len(s) - 1) :
                  /\ s[p] = ":"
                  /\ \A q \in 1..Len(s) : q # p => IsDigit(s[q])}
    IN  IF ps = {} THEN 0 ELSE Min(ps)

C3_Precedence ==
    Parsed =>
        LET s == RawText
            c == ColonOf(s)
            f == PyFloat(CommaToDot(s))
            g == FirstNumber(CommaToDot(s))
        IN  /\ IF s = <<>> THEN out = Zero
               ELSE IF c # 0
                 THEN /\ IsNum(out)
                      /\ out = Rat(DecVal(SubSeq(s, 1, c - 1)) * 60
                                      + DecVal(SubSeq(s, c + 1, Len(s))), 60)
               ELSE IF f.ok THEN out = f.val
               ELSE IF g # <<>> THEN out = PyFloat(g).val
               ELSE out = Zero
            /\ raw = Str(T_0830) => out = Rat(17, 2)
            /\ raw = Str(T_4) => out = Rat(4, 1)
            /\ raw = Str(T_475) => out = Rat(19, 4)
            /\ raw = Str(<<>>) => out = Zero
            /\ raw = NA => out = Zero
            /\ raw = Str(T_abc) => out = Zero
            /\ raw = Str(T_4horas) => out = Rat(4, 1)
            /\ raw = Str(T_4xx) => ColonOf(T_4xx) = 0 /\ out = Rat(4, 1)

(***************************************************************************)
(* What does hold of _parse_hours: both properties on every input whose     *)
(* digit runs are within the range of a float.                              *)
(***************************************************************************)
WithinFloatRange == Len(RawText) < HugeDigits

NeverFailsWithinFloatRange == WithinFloatRange => C1_NeverFails

PrecedenceWithinFloatRange == WithinFloatRange => C3_Precedence

(***************************************************************************)
(* Reference sums used by the properties: the sum of a parsed duration      *)
(* column over a set of row indices.                                        *)
(***************************************************************************)
RECURSIVE SumOver(_, _, _)
SumOver(rows, I, col) ==
    IF I = {} THEN Zero
    ELSE LET i == CHOOSE x \in I : TRUE
         IN  Add(_parse_hours(rows[i][col]), SumOver(rows, I \ {i}, col))

\* indices of the completed tasks of an assignee
DoneOf(who) ==
    {i \in 1..Len(df.rows) :
        df.rows[i].assigned_to = who /\ Lower(df.rows[i].state) = DoneLiteral}

\* the assignees named in the table
Assignees == {df.rows[i].assigned_to : i \in 1..Len(df.rows)} \ {Missing}

(***************************************************************************)
(* C4: summarize_hours returns exactly one row per assignee with at least   *)
(* one task whose state equals "concluído" ignoring case; the row's totals  *)
(* are the sums over that assignee's completed tasks only and difference =  *)
(* total_real_hours - total_planned_hours; with no completed task the       *)
(* result is empty; the documented 3-task scenario yields only              *)
(* {A: 6.0, 6.0, 0.0, 100.0}.                                               *)
(***************************************************************************)
C4_UserRows ==
    op = "summarize_hours" =>
        /\ out.kind = "table"
        /\ \A who \in Assignees :
              Cardinality({j \in 1..Len(out.rows) : out.rows[j].assigned_to = who})
                  = IF DoneOf(who) # {} THEN 1 ELSE 0
        /\ \A j \in 1..Len(out.rows) :
              LET r == out.rows[j]
              IN  /\ r.assigned_to \in Assignees
                  /\ r.total_planned_hours
                        = SumOver(df.rows, DoneOf(r.assigned_to), "u_horas_planejadas")
                  /\ r.total_real_hours
                        = SumOver(df.rows, DoneOf(r.assigned_to), "u_horas_reais")
                  /\ r.difference = Sub(r.total_real_hours, r.total_planned_hours)
        /\ (\A i \in 1..Len(df.rows) : Lower(df.rows[i].state) # DoneLiteral)
              => out.rows = <<>>
        /\ df.rows = Scenario =>
              out.rows = <<[assigned_to |-> "A", total_planned_hours |-> Rat(6, 1),
                            total_real_hours |-> Rat(6, 1), difference |-> Zero,
                            estimation_accuracy |-> Hundred]>>

\* the scenario: two completed tasks of A, one task of B that is not
C4_Witness ==
    /\ op = "summarize_hours"
    /\ df.rows = Scenario
    /\ Len(out.rows) = 1

(***************************************************************************)
(* C5: in every row of the user aggregation estimation_accuracy is exactly  *)
(* 0 when total_planned_hours = 0 and otherwise 100 - |difference /         *)
(* total_planned_hours * 100| clamped to [0, 100]; so it always lies in     *)
(* [0, 100].                                                                *)
(***************************************************************************)
C5_Accuracy ==
    op = "summarize_hours" =>
        \A j \in 1..Len(out.rows) :
            LET r   == out.rows[j]
                p   == r.total_planned_hours
                dev == Rat(100 * AbsInt(r.difference.n) * p.d, r.difference.d * AbsInt(p.n))
                acc == Sub(Hundred, dev)
            IN  /\ IsNum(r.estimation_accuracy)
                /\ Le(Zero, r.estimation_accuracy)
                /\ Le(r.estimation_accuracy, Hundred)
                /\ r.estimation_accuracy =
                      IF p.n = 0 THEN Zero
                      ELSE IF Lt(acc, Zero) THEN Zero
                      ELSE acc

\* a row with no planned hours but real ones beside a row whose deviation
\* exceeds 100% (the clamp acts)
C5_Witness ==
    /\ op = "summarize_hours"
    /\ \E j \in 1..Len(out.rows) :
          /\ out.rows[j].total_planned_hours = Zero
          /\ out.rows[j].total_real_hours # Zero
          /\ out.rows[j].estimation_accuracy = Zero
    /\ \E j \in 1..Len(out.rows) :
          /\ out.rows[j].total_planned_hours # Zero
          /\ Lt(Abs(out.rows[j].total_planned_hours), Abs(out.rows[j].difference))
          /\ out.rows[j].estimation_accuracy = Zero

(***************************************************************************)
(* C6: tasks whose assignee is missing are kept as their own group by       *)
(* summarize_hours, and tasks whose sprint is missing as their own group by *)
(* get_sprint_summary: every completed task (resp. every task) belongs to   *)
(* a row of the result, so the totals account for all of them.              *)
(***************************************************************************)
RECURSIVE SumNumTasks(_)
SumNumTasks(rows) ==
    IF rows = <<>> THEN 0 ELSE Head(rows).num_tasks + SumNumTasks(Tail(rows))

C6_MissingKeysRetained ==
    /\ op = "summarize_hours" =>
          \A i \in 1..Len(df.rows) :
              Lower(df.rows[i].state) = DoneLiteral =>
                  \E j \in 1..Len(out.rows) :
                      out.rows[j].assigned_to = df.rows[i].assigned_to
    /\ op = "get_sprint_summary" =>
          /\ \A i \in 1..Len(df.rows) :
                \E j \in 1..Len(out.rows) :
                    out.rows[j].story_sprint = df.rows[i].story_sprint
          /\ SumNumTasks(out.rows) = Len(df.rows)

(***************************************************************************)
(* Reference definitions for the daily workload: the tasks with both dates  *)
(* parseable, their dates, and the task's share per day.                    *)
(***************************************************************************)
StartOf(i) == ToDatetime(df.rows[i].sprint_start)

EndOf(i) == ToDatetime(df.rows[i].sprint_end)

Qualifying ==
    {i \in 1..Len(df.rows) :
        DateCols \subseteq df.cols /\ StartOf(i) # NaT /\ EndOf(i) # NaT}

\* taskDays = (endDate - startDate).days + 1
DaysOf(i) == (EndOf(i) - StartOf(i)) \div HoursPerDay + 1

\* the calendar day of a timestamp
DayOf(ts) == ts \div HoursPerDay

RECURSIVE SumShare(_, _)
SumShare(I, col) ==
    IF I = {} THEN Zero
    ELSE LET i == CHOOSE x \in I : TRUE
         IN  Add(Div(_parse_hours(df.rows[i][col]), Rat(DaysOf(i), 1)),
                 SumShare(I \ {i}, col))

RECURSIVE SumHours(_, _)
SumHours(I, col) ==
    IF I = {} THEN Zero
    ELSE LET i == CHOOSE x \in I : TRUE
         IN  Add(_parse_hours(df.rows[i][col]), SumHours(I \ {i}, col))

IsDailyTable == op = "get_daily_workload" /\ out.kind = "table"

(***************************************************************************)
(* C7: get_daily_workload returns exactly one point for each calendar day   *)
(* from the day of the earliest start to the day of the latest end among    *)
(* the tasks with both dates parseable, whatever the times of day are.      *)
(***************************************************************************)
C7_OnePointPerDay ==
    (IsDailyTable /\ \A i \in Qualifying : StartOf(i) <= EndOf(i)) =>
        LET first == DayOf(Min({StartOf(i) : i \in Qualifying}))
            last  == DayOf(Max({EndOf(i) : i \in Qualifying}))
        IN  /\ \A d \in first..last :
                  Cardinality({j \in 1..Len(out.rows) : DayOf(out.rows[j].date) = d}) = 1
            /\ \A j \in 1..Len(out.rows) : DayOf(out.rows[j].date) \in first..last

(***************************************************************************)
(* C8: each point's planned (real) hours are the sum, over the tasks whose  *)
(* window [start, end] covers the point and whose taskDays > 0, of          *)
(* plannedHours / taskDays (realHours / taskDays), also when the tasks'     *)
(* start timestamps differ in time of day.                                  *)
(***************************************************************************)
Covering(date) ==
    {i \in Qualifying : DaysOf(i) > 0 /\ StartOf(i) <= date /\ date <= EndOf(i)}

C8_DailySum ==
    IsDailyTable =>
        \A j \in 1..Len(out.rows) :
            /\ out.rows[j].planned_hours
                  = SumShare(Covering(out.rows[j].date), "u_horas_planejadas")
            /\ out.rows[j].real_hours
                  = SumShare(Covering(out.rows[j].date), "u_horas_reais")

(***************************************************************************)
(* C9: a single task of 3 inclusive days with 9 planned hours puts 3.0 on   *)
(* each of 3 days; and when the windows of the tasks do not overlap (each   *)
(* with taskDays > 0) the points' planned (real) hours sum to the tasks'    *)
(* planned (real) hours.                                                    *)
(***************************************************************************)
NoOverlap ==
    \A i, j \in Qualifying : i # j => EndOf(i) < StartOf(j) \/ EndOf(j) < StartOf(i)

C9_EffortConserved ==
    IsDailyTable =>
        /\ (Len(df.rows) = 1 /\ Qualifying = {1} /\ DaysOf(1) = 3
            /\ _parse_hours(df.rows[1].u_horas_planejadas) = Rat(9, 1))
              => /\ Len(out.rows) = 3
                 /\ \A j \in 1..3 : out.rows[j].planned_hours = Rat(3, 1)
        /\ (NoOverlap /\ \A i \in Qualifying : DaysOf(i) > 0)
              => /\ SumSeq(Column(out.rows, "planned_hours"))
                      = SumHours(Qualifying, "u_horas_planejadas")
                 /\ SumSeq(Column(out.rows, "real_hours"))
                      = SumHours(Qualifying, "u_horas_reais")

(***************************************************************************)
(* C10: get_daily_workload never raises; it returns None when a date        *)
(* column is missing, when every start date or every end date is            *)
(* unparseable or absent, and when no task has both dates parseable; and    *)
(* whenever at least one task has both dates parseable it returns a table.  *)
(***************************************************************************)
C10_Unavailable ==
    op = "get_daily_workload" =>
        /\ out.kind \in {"none", "table"}
        /\ Qualifying = {} => out.kind = "none"
        /\ Qualifying # {} => out.kind = "table"

(***************************************************************************)
(* What does hold of get_daily_workload.                                    *)
(***************************************************************************)
TimeOf(ts) == ts % HoursPerDay

\* all tasks with dates start at the same time of day
SameStartTime == \A i, j \in Qualifying : TimeOf(StartOf(i)) = TimeOf(StartOf(j))

\* one point per calendar day when no window is reversed and the latest end
\* is not earlier in the day than the earliest start
DaysWhenEndTimeNotEarlier ==
    (/\ \A i, j \in Qualifying :
            TimeOf(EndOf(j)) >= TimeOf(StartOf(i)))
        => C7_OnePointPerDay

DailySumWhenSameStartTime == SameStartTime => C8_DailySum

ConservedWhenSameStartTime == SameStartTime => C9_EffortConserved

UnavailableWhenDurationColumns ==
    {"u_horas_planejadas", "u_horas_reais"} \subseteq df.cols => C10_Unavailable

(***************************************************************************)
(* Reference definitions for the projections, under SpecProj: the tasks of  *)
(* a group, by their indices in the caller's table.                         *)
(***************************************************************************)
\* indices of the tasks whose column f holds the key k
KeyRows(f, k) == {i \in 1..Len(df.rows) : df.rows[i][f] = k}

DoneIn(I) == {i \in I : Lower(df.rows[i].state) = DoneLiteral}

SprintKeys == {df.rows[i].story_sprint : i \in 1..Len(df.rows)} \ {Missing}

EpicKeys == {df.rows[i].story_epic : i \in 1..Len(df.rows)} \ {Missing, ""}

\* the tasks without a usable pair of sprint dates
Dateless == (1..Len(df.rows)) \ Qualifying

\* the caller's table without its dateless tasks
WithoutDateless ==
    [cols |-> df.cols,
     rows |-> SelectSeq(df.rows, LAMBDA r :
                 /\ DateCols \subseteq df.cols
                 /\ ToDatetime(r.sprint_start) # NaT
                 /\ ToDatetime(r.sprint_end) # NaT)]

IsTable(name) == op = name /\ out.kind = "table"

(***************************************************************************)
(* C11: a task whose sprint start or end date is unparseable or absent is   *)
(* excluded only from the daily workload: the result of get_daily_workload  *)
(* (its date range and every point) is what it is without the dateless      *)
(* tasks, while the user, epic and sprint aggregations count and sum the    *)
(* dateless tasks like any other task.                                      *)
(***************************************************************************)
C11_DatelessExcludedOnlyFromDaily ==
    /\ op = "get_daily_workload" =>
          /\ out = get_daily_workload(WithoutDateless)
          /\ out.kind = "table" =>
                /\ out.rows[1].date = Min({StartOf(i) : i \in Qualifying})
                /\ \A j \in 1..Len(out.rows) :
                      out.rows[j].date <= Max({EndOf(i) : i \in Qualifying})
    /\ IsTable("get_sprint_summary") =>
          \A j \in 1..Len(out.rows) :
              LET I == KeyRows("story_sprint", out.rows[j].story_sprint)
              IN  /\ out.rows[j].num_tasks = Cardinality(I)
                  /\ out.rows[j].total_planned_hours
                        = SumOver(df.rows, I, "u_horas_planejadas")
                  /\ out.rows[j].total_real_hours
                        = SumOver(df.rows, I, "u_horas_reais")
    /\ IsTable("get_epic_summary") =>
          \A j \in 1..Len(out.rows) :
              LET I == KeyRows("story_epic", out.rows[j].story_epic)
              IN  /\ out.rows[j].num_tasks = Cardinality(I)
                  /\ out.rows[j].total_planned_hours
                        = SumOver(df.rows, I, "u_horas_planejadas")
                  /\ out.rows[j].total_real_hours
                        = SumOver(df.rows, I, "u_horas_reais")
    /\ IsTable("summarize_hours") =>
          \A j \in 1..Len(out.rows) :
              LET I == DoneIn(KeyRows("assigned_to", out.rows[j].assigned_to))
              IN  /\ out.rows[j].total_planned_hours
                        = SumOver(df.rows, I, "u_horas_planejadas")
                  /\ out.rows[j].total_real_hours
                        = SumOver(df.rows, I, "u_horas_reais")

\* a daily table computed from a table holding a dated and a dateless task
\* with hours, after an aggregation has run on the same table
C11_Witness ==
    /\ IsTable("get_daily_workload")
    /\ "planned_hours" \in df.cols
    /\ \E i \in Dateless : _parse_hours(df.rows[i].u_horas_planejadas) # Zero
    /\ \E j \in 1..Len(out.rows) : out.rows[j].planned_hours # Zero

(***************************************************************************)
(* C12: get_sprint_summary and get_epic_summary aggregate over all tasks    *)
(* whatever their state: one row per sprint key, resp. one row per epic key *)
(* that is neither absent nor empty (tasks without epic are left out before *)
(* grouping, without error); in each row num_tasks is the number of tasks   *)
(* of the group, the totals are the sums of the group's parsed hours, and   *)
(* difference = total_real_hours - total_planned_hours.                     *)
(***************************************************************************)
C12_GroupRows ==
    /\ op = "get_sprint_summary" =>
          /\ {"u_horas_planejadas", "u_horas_reais", "state"} \subseteq df.cols
                => out.kind = "table"
          /\ out.kind = "table" =>
                /\ \A k \in SprintKeys :
                      Cardinality({j \in 1..Len(out.rows) :
                                      out.rows[j].story_sprint = k}) = 1
                /\ \A j \in 1..Len(out.rows) :
                      LET r == out.rows[j]
                          I == KeyRows("story_sprint", r.story_sprint)
                      IN  /\ r.story_sprint \in SprintKeys
                          /\ r.num_tasks = Cardinality(I)
                          /\ r.total_planned_hours
                                = SumOver(df.rows, I, "u_horas_planejadas")
                          /\ r.total_real_hours = SumOver(df.rows, I, "u_horas_reais")
                          /\ r.difference
                                = Sub(r.total_real_hours, r.total_planned_hours)
    /\ op = "get_epic_summary" =>
          /\ {"u_horas_planejadas", "u_horas_reais", "state"} \subseteq df.cols
                => out.kind = "table"
          /\ out.kind = "table" =>
                /\ \A k \in EpicKeys :
                      Cardinality({j \in 1..Len(out.rows) :
                                      out.rows[j].story_epic = k}) = 1
                /\ \A j \in 1..Len(out.rows) :
                      LET r == out.rows[j]
                          I == KeyRows("story_epic", r.story_epic)
                      IN  /\ r.story_epic \in EpicKeys
                          /\ r.num_tasks = Cardinality(I)
                          /\ r.total_planned_hours
                                = SumOver(df.rows, I, "u_horas_planejadas")
                          /\ r.total_real_hours = SumOver(df.rows, I, "u_horas_reais")
                          /\ r.difference
                                = Sub(r.total_real_hours, r.total_planned_hours)

\* an epic summary of a table with a task without epic and an epic whose
\* group mixes a completed task and one that is not
C12_Witness ==
    /\ IsTable("get_epic_summary")
    /\ \E i \in 1..Len(df.rows) : df.rows[i].story_epic \in {Missing, ""}
    /\ \E j \in 1..Len(out.rows) :
          LET I == KeyRows("story_epic", out.rows[j].story_epic)
          IN  /\ out.rows[j].num_tasks = 2
              /\ DoneIn(I) # {}
              /\ DoneIn(I) # I

(***************************************************************************)
(* C13: in every epic and sprint row pct_completed = (tasks of the group    *)
(* whose state equals "concluído" ignoring case) / (tasks of the group) x   *)
(* 100; it lies in [0, 100], is 100 when every task of the group is         *)
(* completed and 0 when none is.                                            *)
(***************************************************************************)
PctOf(I) == Rat(100 * Cardinality(DoneIn(I)), Cardinality(I))

PctHolds(pct, I) ==
    /\ pct = PctOf(I)
    /\ Le(Zero, pct) /\ Le(pct, Hundred)
    /\ DoneIn(I) = I => pct = Hundred
    /\ DoneIn(I) = {} => pct = Zero

C13_PctCompleted ==
    /\ IsTable("get_sprint_summary") =>
          \A j \in 1..Len(out.rows) :
              PctHolds(out.rows[j].pct_completed,
                       KeyRows("story_sprint", out.rows[j].story_sprint))
    /\ IsTable("get_epic_summary") =>
          \A j \in 1..Len(out.rows) :
              PctHolds(out.rows[j].pct_completed,
                       KeyRows("story_epic", out.rows[j].story_epic))

\* a sprint row at 50%: one of its two tasks is completed, written in
\* capitals
C13_Witness ==
    /\ IsTable("get_sprint_summary")
    /\ \E j \in 1..Len(out.rows) :
          /\ out.rows[j].pct_completed = Rat(50, 1)
          /\ \E i \in KeyRows("story_sprint", out.rows[j].story_sprint) :
                df.rows[i].state = "CONCLUIDO"

(***************************************************************************)
(* Reference definitions for the efficiency of a task, under SpecEff: the   *)
(* parsed hours of task i of the caller's table and their clamped ratio.    *)
(***************************************************************************)
PlannedOf(i) == _parse_hours(df.rows[i].u_horas_planejadas)

RealOf(i) == _parse_hours(df.rows[i].u_horas_reais)

\* plannedHours / realHours if realHours != 0, and 0 otherwise
RatioOf(i) ==
    IF RealOf(i).n # 0
    THEN Rat(PlannedOf(i).n * RealOf(i).d, PlannedOf(i).d * RealOf(i).n)
    ELSE Zero

\* the ratio clamped into [0, 2]
ClampedRatioOf(i) ==
    IF RatioOf(i).n < 0 THEN Zero
    ELSE IF RatioOf(i).n > 2 * RatioOf(i).d THEN Two
    ELSE RatioOf(i)

NoEstimate == "Sem estimativa"

Categories ==
    {"Sem estimativa", "Muito abaixo (>200%)", "Abaixo (125-200%)",
     "Adequada (80-125%)", "Acima (50-80%)", "Muito acima (<50%)"}

\* the interval of efficiencies of a category
Fits(eff, c) ==
    CASE c = "Sem estimativa" -> eff = Zero
      [] c = "Muito abaixo (>200%)" -> Lt(Zero, eff) /\ Lt(eff, Half)
      [] c = "Abaixo (125-200%)" -> Le(Half, eff) /\ Lt(eff, FourFifths)
      [] c = "Adequada (80-125%)" -> Le(FourFifths, eff) /\ Lt(eff, FiveFourths)
      [] c = "Acima (50-80%)" -> Le(FiveFourths, eff) /\ Lt(eff, Two)
      [] c = "Muito acima (<50%)" -> eff = Two

C15_Categories ==
    op = "categorize_efficiency" =>
        \A i \in 1..Len(out.rows) :
            LET eff == out.rows[i].efficiency
                cat == out.rows[i].efficiency_category
            IN  (Le(Zero, eff) /\ Le(eff, Two)) =>
                    /\ cat \in Categories
                    /\ \A c \in Categories : (c = cat) <=> Fits(eff, c)
                    /\ eff = Half => cat = "Abaixo (125-200%)"
                    /\ eff = FourFifths => cat = "Adequada (80-125%)"
                    /\ eff = FiveFourths => cat = "Acima (50-80%)"
                    /\ eff = Two => cat = "Muito acima (<50%)"

\* a task of 4 planned and 5 actual hours: efficiency 0.8, on a threshold
C15_Witness ==
    /\ op = "categorize_efficiency"
    /\ \E i \in 1..Len(out.rows) :
          /\ out.rows[i].efficiency = FourFifths
          /\ out.rows[i].efficiency_category = "Adequada (80-125%)"

(***************************************************************************)
(* C19: for non-negative hours a task's efficiency is 0, and the task is    *)
(* classified "Sem estimativa", exactly when plannedHours = 0 or            *)
(* realHours = 0: the bucket also receives every task with a positive       *)
(* estimate and zero actual hours, and no task with plannedHours > 0 and    *)
(* realHours > 0.                                                           *)
(***************************************************************************)
C19_NoEstimateBucket ==
    /\ IsTable("prepare_tasks_data") =>
          \A i \in 1..Len(out.rows) :
              (Le(Zero, PlannedOf(i)) /\ Le(Zero, RealOf(i))) =>
                  /\ out.rows[i].efficiency = Zero
                        <=> (PlannedOf(i) = Zero \/ RealOf(i) = Zero)
                  /\ categorize_efficiency(out.rows[i].efficiency) = NoEstimate
                        <=> out.rows[i].efficiency = Zero
    /\ op = "categorize_efficiency" =>
          \A i \in 1..Len(out.rows) :
              (Le(Zero, PlannedOf(i)) /\ Le(Zero, RealOf(i))) =>
                  (out.rows[i].efficiency_category = NoEstimate
                      <=> (PlannedOf(i) = Zero \/ RealOf(i) = Zero))

\* a classified task with a positive estimate and no actual hours
C19_Witness ==
    /\ op = "categorize_efficiency"
    /\ \E i \in 1..Len(out.rows) :
          /\ Lt(Zero, PlannedOf(i))
          /\ RealOf(i) = Zero
          /\ out.rows[i].efficiency_category = NoEstimate

(***************************************************************************)
(* Reference definitions for the caller's table: its record set (the input  *)
(* columns) and the derived columns the projections leave in it.            *)
(***************************************************************************)
\* the input columns of a table and their values
InputPart(t) ==
    [cols |-> t.cols \cap InputCols,
     rows |-> [i \in 1..Len(t.rows) |->
                 [number |-> t.rows[i].number,
                  assigned_to |-> t.rows[i].assigned_to,
                  state |-> t.rows[i].state,
                  u_horas_planejadas |-> t.rows[i].u_horas_planejadas,
                  u_horas_reais |-> t.rows[i].u_horas_reais,
                  story_sprint |-> t.rows[i].story_sprint,
                  story_epic |-> t.rows[i].story_epic,
                  sprint_start |-> t.rows[i].sprint_start,
                  sprint_end |-> t.rows[i].sprint_end]]]

HoursPart(t) ==
    [i \in 1..Len(t.rows) |-> <<t.rows[i].planned_hours, t.rows[i].real_hours>>]

DatesPart(t) ==
    [i \in 1..Len(t.rows) |-> <<t.rows[i].start_date, t.rows[i].end_date>>]

\* the record set alone: the table as it was before any projection ran on it
Fresh(t) ==
    [cols |-> t.cols \cap InputCols,
     rows |-> [i \in 1..Len(t.rows) |->
                 [t.rows[i] EXCEPT !.planned_hours = NoFloat, !.real_hours = NoFloat,
                                   !.start_date = NaT, !.end_date = NaT]]]

(***************************************************************************)
(* C16: the projections are independent: whichever projections ran on the   *)
(* record set before, and in whatever order, the result of summarize_hours, *)
(* get_epic_summary, get_sprint_summary, get_daily_workload and             *)
(* prepare_tasks_data is the result computed from the record set alone, so  *)
(* calling a projection again returns the same result.                      *)
(***************************************************************************)
C16_Independent ==
    /\ op = "summarize_hours" => out = summarize_hours(Fresh(df))
    /\ op = "get_epic_summary" => out = get_epic_summary(Fresh(df))
    /\ op = "get_sprint_summary" => out = get_sprint_summary(Fresh(df))
    /\ op = "get_daily_workload" => out = get_daily_workload(Fresh(df))
    /\ op = "prepare_tasks_data" => out = prepare_tasks_data(Fresh(df))

(***************************************************************************)
(* What does hold: every projection but prepare_tasks_data is independent   *)
(* of the earlier calls, and the prepared copy differs from the one made    *)
(* from the record set alone only in the columns start_date and end_date    *)
(* an earlier get_daily_workload left in the caller's table.                *)
(***************************************************************************)
WithoutDateColumns(result) ==
    IF result.kind # "table" THEN result
    ELSE Frame(result.cols \ {"start_date", "end_date"},
               [i \in 1..Len(result.rows) |->
                   [result.rows[i] EXCEPT !.start_date = NaT, !.end_date = NaT]])

IndependentApartFromCopiedColumns ==
    /\ op = "summarize_hours" => out = summarize_hours(Fresh(df))
    /\ op = "get_epic_summary" => out = get_epic_summary(Fresh(df))
    /\ op = "get_sprint_summary" => out = get_sprint_summary(Fresh(df))
    /\ op = "get_daily_workload" => out = get_daily_workload(Fresh(df))
    /\ op = "prepare_tasks_data" =>
          WithoutDateColumns(out) = WithoutDateColumns(prepare_tasks_data(Fresh(df)))

(***************************************************************************)
(* C17: a missing required column (planned duration, actual duration,       *)
(* state) is a fatal error of every routine that needs it: summarize_hours, *)
(* get_epic_summary, get_sprint_summary, get_daily_workload and             *)
(* prepare_tasks_data fail with an error, none returns a default, empty or  *)
(* unavailable result.                                                      *)
(***************************************************************************)
DurationCols == {"u_horas_planejadas", "u_horas_reais"}

C17_MissingColumnFatal ==
    /\ (op \in {"summarize_hours", "get_epic_summary", "get_sprint_summary"}
        /\ ~(DurationCols \cup {"state"} \subseteq df.cols))
          => out = Error
    /\ (op = "prepare_tasks_data" /\ ~(DurationCols \subseteq df.cols))
          => out = Error
    /\ (op = "get_daily_workload" /\ ~(DurationCols \subseteq df.cols)
        /\ \E i \in Qualifying : DaysOf(i) > 0)
          => out = Error

(***************************************************************************)
(* What does hold: the four routines other than get_daily_workload fail.    *)
(***************************************************************************)
FatalOutsideDailyWorkload ==
    /\ (op \in {"summarize_hours", "get_epic_summary", "get_sprint_summary"}
        /\ ~(DurationCols \cup {"state"} \subseteq df.cols))
          => out = Error
    /\ (op = "prepare_tasks_data" /\ ~(DurationCols \subseteq df.cols))
          => out = Error

(***************************************************************************)
(* C18: the aggregate outputs are ordered: summarize_hours ascending by     *)
(* assignee, get_sprint_summary ascending by sprint key, get_epic_summary   *)
(* by descending num_tasks (of two adjacent epic rows the earlier has       *)
(* num_tasks >= the later).                                                 *)
(***************************************************************************)
\* the place of a key in the ascending order of the keys
KeyRank(k) == CHOOSE n \in 1..Len(KeyOrder) : KeyOrder[n] = k

C18_Ordered ==
    /\ IsTable("summarize_hours") =>
          \A j \in 1..(Len(out.rows) - 1) :
              KeyRank(out.rows[j].assigned_to) < KeyRank(out.rows[j + 1].assigned_to)
    /\ IsTable("get_sprint_summary") =>
          \A j \in 1..(Len(out.rows) - 1) :
              KeyRank(out.rows[j].story_sprint) < KeyRank(out.rows[j + 1].story_sprint)
    /\ IsTable("get_epic_summary") =>
          \A j \in 1..(Len(out.rows) - 1) :
              out.rows[j].num_tasks >= out.rows[j + 1].num_tasks

\* an epic summary whose first row has more tasks and the later key
C18_Witness ==
    /\ IsTable("get_epic_summary")
    /\ Len(out.rows) = 2
    /\ out.rows[1].num_tasks > out.rows[2].num_tasks
    /\ KeyRank(out.rows[1].story_epic) > KeyRank(out.rows[2].story_epic)

(***************************************************************************)
(* C20: no call of get_task_status_summary, get_epic_summary,               *)
(* get_sprint_summary, get_daily_workload or prepare_tasks_data changes the *)
(* rows of the caller's table or the values of its input columns:           *)
(* get_epic_summary and get_sprint_summary only add or overwrite            *)
(* planned_hours and real_hours, get_daily_workload only start_date and     *)
(* end_date, and prepare_tasks_data, working on a copy, leaves the table    *)
(* entirely unchanged.                                                      *)
(***************************************************************************)
C20_Frame ==
    [][/\ InputPart(df') = InputPart(df)
       /\ op' \in {"get_epic_summary", "get_sprint_summary"} =>
             /\ df.cols \subseteq df'.cols
             /\ df'.cols \subseteq df.cols \cup {"planned_hours", "real_hours"}
             /\ DatesPart(df') = DatesPart(df)
       /\ op' = "get_daily_workload" =>
             /\ df.cols \subseteq df'.cols
             /\ df'.cols \subseteq df.cols \cup {"start_date", "end_date"}
             /\ HoursPart(df') = HoursPart(df)
       /\ op' \in {"prepare_tasks_data", "get_task_status_summary"} => df' = df]_vars

\* prepare_tasks_data has returned a table while the caller's table holds
\* what the aggregations and get_daily_workload added, and nothing of the
\* copy
C20_Witness ==
    /\ IsTable("prepare_tasks_data")
    /\ Len(df.rows) > 0
    /\ {"planned_hours", "real_hours", "start_date", "end_date"} \subseteq df.cols
    /\ "efficiency" \notin df.cols
    /\ \E i \in 1..Len(df.rows) : df.rows[i].start_date # NaT

====
